---- MODULE Spec2Model ----
(***************************************************************************)
(* Club membership synchronisation of the archery registry API:            *)
(* ClubCreateSerializer.create / ClubCreateSerializer.update of            *)
(* Chapter023, Chapter025 and Chapter027, run by concurrent requests       *)
(* against one record store, together with the Archer and Club delete      *)
(* requests that the PROTECT foreign keys of Membership guard.             *)
(*                                                                         *)
(* The record store is the database behind Django's ORM.  A request runs   *)
(* its statements one at a time.  Inside `with transaction.atomic()` the   *)
(* statements write to the transaction's private buffer, which becomes     *)
(* visible to others at commit only (READ COMMITTED); the UPDATE of the    *)
(* Club row holds that row's lock until the transaction ends.  Outside an  *)
(* atomic block every statement commits on its own (autocommit).           *)
(***************************************************************************)
EXTENDS Integers, Sequences, FiniteSets, TLC

\* ---------------------------------------------------------------- bounds
NumArchers == 2        \* Archer rows in the store at the start
MaxLen == 2            \* longest member_refs list of a request
MaxClubs == 2          \* Club identities ever handed out
MaxMids == 3           \* Membership identities ever handed out
MaxCalls == 3
NumUsers == 2           \* User rows in the store at the start
MaxScore == 12           \* largest score of a Result tried
MaxArrows == 8           \* largest number of arrows of a Result tried
MaxPosts == 1            \* archers added through the list endpoint
MaxSeeds == 1           \* runs of populate_db          \* create/update requests ever made

ArcherIds == 1..NumArchers
ClubIds == 1..MaxClubs
Procs == {"r1", "r2"}                    \* concurrent requests
Names == {"De Boogschutters", "Concordia"}  \* values of the scalar attributes
Chapters == {23, 25, 27}                 \* the serializer variants

MaxNameLen == 64       \* Club.name max_length
\* names the serializer refuses: blank, and one of 65 characters
BadNames == {"", "Handboogschuttersvereniging De Vrolijke Schutters van Sint-Sebast"}
UserIds == 1..NumUsers
NoClub == 0            \* no club identity yet (create before Club.objects.create)
SuperUser == 1         \* author = ForeignKey(User, default=1): the superuser

\* all member_refs lists of length <= MaxLen
RECURSIVE SeqsUpTo(_)
SeqsUpTo(n) ==
    IF n = 0 THEN {<<>>}
    ELSE LET shorter == SeqsUpTo(n - 1)
         IN  shorter \cup {Append(s, a) : s \in {t \in shorter : Len(t) = n - 1}, a \in ArcherIds}

RefLists == SeqsUpTo(MaxLen)

VARIABLES
    chapter,      \* which chapter's api app is deployed
    archers,      \* Archer table: identities of the stored rows
    clubs,        \* Club table: identity -> scalar attributes
    memberships,  \* Membership table: rows [id, club, archer]
    nextClub,     \* next fresh Club identity (uuid.uuid4)
    nextMid,      \* next fresh Membership identity (uuid.uuid4)
    pc,           \* per request: position in its handler, or how it ended
    req,          \* per request: operation, target club, validated_data
    idx,          \* per request: position of the `for membership in membership_data` loop
    tx,           \* per request: uncommitted writes of its atomic block
    pre,          \* per request: the target club's stored state when create()/update() was entered
    intf,         \* per request: somebody else changed the target club since then
    lastList,     \* per club: the member list of the last committed create/update
    calls,        \* requests made so far
    overlap,      \* per request: another request for the same club was under way when update() was entered
    users,        \* User table: identities of the stored rows
    outcome,      \* the last request answered outside the club serializers: what, which row, the error
    nextArcher,   \* the next fresh Archer identity (uuid4)
    instance,     \* the Membership instance handed to MembershipSerializer
    data,         \* MembershipSerializer(instance).data, once computed
    clubAuthor,   \* per Club identity handed out: the row's author
    archerName,   \* per Archer identity handed out: the row's last_name
    http,         \* the last exchange on the archer and club endpoints
    info,         \* the archer-info request: its queryset cache and response
    result,       \* a Result instance: score and arrows
    average       \* result.average, once read

vars == <<chapter, archers, clubs, memberships, nextClub, nextMid,
          pc, req, idx, tx, pre, intf, lastList, calls, overlap, users, outcome,
          nextArcher, instance, data, clubAuthor, archerName, http, info,
          result, average>>

\* the store and the state of the create and update calls
calling == <<chapter, archers, clubs, memberships, nextClub, nextMid,
             pc, req, idx, tx, pre, intf, lastList, calls, overlap>>

\* what the club serializers never write
views == <<http, info, result, average>>
aux == <<users, outcome, nextArcher, instance, data, archerName, views>>

store == <<archers, clubs, memberships>>

\* ------------------------------------------------------------ record store
NoTx == [club |-> NoClub, name |-> "", del |-> {}, ins |-> {}]
NoReq == [op |-> "none", club |-> NoClub, named |-> FALSE, name |-> "",
          has |-> FALSE, refs |-> <<>>]
Errors == {"ValidationError", "KeyError", "IntegrityError"}
NoOutcome == [op |-> "none", id |-> 0, error |-> ""]
NoHttp == [view |-> "none", method |-> "", caller |-> "", status |-> "", rows |-> {}]
NoInfo == [stage |-> "none", cache |-> << >>, archers |-> << >>, count |-> 0]
\* score and arrows of a Result: <<>> stands for None, <<n>> for the number n
NoResult == [score |-> <<0>>, arrows |-> <<0>>]
NotRead == [read |-> FALSE]

\* instance.memberships.all(): the committed Membership rows of club c
ClubRows(c) == {m \in memberships : m.club = c}

\* what a reader outside any transaction sees of club c
ClubState(c) ==
    [exists |-> c \in DOMAIN clubs,
     name   |-> IF c \in DOMAIN clubs THEN clubs[c] ELSE "",
     rows   |-> ClubRows(c)]

NoState == [exists |-> FALSE, name |-> "", rows |-> {}]

CountRows(a, rows) == Cardinality({m \in rows : m.archer = a})
CountRefs(a, refs) == Cardinality({i \in 1..Len(refs) : refs[i] = a})
\* the Membership rows reference exactly the archers of refs, duplicates counted
SameMembers(rows, refs) ==
    \A a \in ArcherIds : CountRows(a, rows) = CountRefs(a, refs)

\* ------------------------------------------------------------ transactions
\* `with transaction.atomic():` wraps the writes of create and of update
\* (Chapter025 and Chapter027); Chapter023's create has no such block.
AtomicCreateOff == FALSE
AtomicCreate == chapter \in {25, 27}
AtomicUpdateOff == FALSE
AtomicUpdate == chapter \in {25, 27}
\* Chapter023's ClubCreateSerializer defines create only.
OffersUpdate == chapter \in {25, 27}

Atomic(p) == IF req[p].op = "create" THEN AtomicCreate ELSE AtomicUpdate

\* instance.save() inside the atomic block: the UPDATE takes the Club row's lock,
\* held until the block is left; a second transaction's UPDATE of the row waits.
ClubRowLockedNever(c, p) == FALSE
ClubRowLocked(c, p) == \E q \in Procs \ {p} : tx[q].club = c

\* Membership.club, on_delete=PROTECT: the row's club must be a stored Club
\* (or one this transaction has written)
FkClubOk(p, c) == c \in DOMAIN clubs \/ tx[p].club = c
\* Membership.archer, on_delete=PROTECT: the row's archer must be a stored Archer
FkArcherOkAlways(a) == TRUE
FkArcherOk(a) == a \in archers

\* on_delete=models.PROTECT of Membership.archer: deleting Archer a is refused
\* while a Membership row references it
ArcherProtectedNever(a) == FALSE
ArcherProtected(a) == \E m \in memberships : m.archer = a

\* author = ForeignKey(User, on_delete=PROTECT, default=1) of Archer, Club and
\* Membership: a row written without an author gets user 1, which must exist
DefaultAuthorNext == SuperUser + 1
DefaultAuthor == SuperUser
FkAuthorOk == DefaultAuthor \in users
ArcherAuthor(a) == DefaultAuthor

\* on_delete=models.PROTECT of Membership.club: deleting Club c is refused
\* while a Membership row references it
ClubProtectedNever(c) == FALSE
ClubProtected(c) == ClubRows(c) # {}

\* instance.memberships.all() as update() deletes it
RowsToDeleteNone(c) == {}
RowsToDeleteAll(c) == memberships
RowsToDelete(c) == ClubRows(c)

\* the store after the writes t of a transaction are applied
ClubsAfterReplaced(t) ==
    IF t.club = NoClub THEN clubs ELSE [c \in {t.club} |-> t.name]
ClubsAfter(t) ==
    IF t.club = NoClub THEN clubs
    ELSE [c \in DOMAIN clubs \cup {t.club} |-> IF c = t.club THEN t.name ELSE clubs[c]]
MembershipsAfter(t) == (memberships \ t.del) \cup t.ins

\* One statement with writes w (same shape as a transaction buffer): inside an
\* atomic block it is added to the buffer, otherwise it is committed at once.
Write(p, w) ==
    IF Atomic(p)
    THEN /\ tx' = [tx EXCEPT ![p] = [club |-> IF w.club = NoClub THEN @.club ELSE w.club,
                                     name |-> IF w.club = NoClub THEN @.name ELSE w.name,
                                     del  |-> @.del \cup w.del,
                                     ins  |-> @.ins \cup w.ins]]
         /\ UNCHANGED <<clubs, memberships>>
    ELSE /\ clubs' = ClubsAfter(w)
         /\ memberships' = MembershipsAfter(w)
         /\ UNCHANGED tx

\* bookkeeping of `intf`: a step of `actor` that changes the stored state of the
\* club another request is working on (or has finished with) marks that request
Track(actor, enters) ==
    intf' = [q \in Procs |->
               IF q = actor
               THEN (IF enters THEN FALSE ELSE intf[q])
               ELSE intf[q] \/ (/\ pc[q] \notin {"idle", "valid"}
                                /\ ClubState(req[q].club)' # ClubState(req[q].club))]

\* identities still to be handed out to requests that are under way
PendingIns(q) ==
    IF pc[q] \in {"valid", "updated"} THEN Len(req[q].refs)
    ELSE IF pc[q] = "inserting" THEN Len(req[q].refs) - (idx[q] - 1)
    ELSE 0
PendingClub(q) == IF pc[q] = "valid" /\ req[q].op = "create" THEN 1 ELSE 0

RECURSIVE SumPendingIns(_)
SumPendingIns(S) ==
    IF S = {} THEN 0
    ELSE LET q == CHOOSE x \in S : TRUE IN PendingIns(q) + SumPendingIns(S \ {q})
RECURSIVE SumPendingClub(_)
SumPendingClub(S) ==
    IF S = {} THEN 0
    ELSE LET q == CHOOSE x \in S : TRUE IN PendingClub(q) + SumPendingClub(S \ {q})

\* `for membership in membership_data:` has no element left
LoopDoneAtFirst(p) == idx[p] > Len(req[p].refs) \/ idx[p] > 1
LoopDone(p) == idx[p] > Len(req[p].refs)

\* the element of membership_data the loop is at
EntryReversed(p) == req[p].refs[Len(req[p].refs) - idx[p] + 1]
Entry(p) == req[p].refs[idx[p]]

\* Membership.id = UUIDField(default=uuid.uuid4): a new row gets an identity
\* never handed out before
NewIdReused(p) ==
    LET free == {m.id : m \in tx[p].del} \ {m.id : m \in tx[p].ins}
    IN IF free = {} THEN nextMid ELSE CHOOSE i \in free : \A j \in free : i <= j
NewId(p) == nextMid

Finished(p) == pc[p] \in {"done"} \cup Errors

\* ------------------------------------------------------------ serializing
\* Archer.last_name, first_name (required) and middle_name (null=True,
\* blank=True: <<>> stands for None, <<s>> for the string s)
\* the last names the archer endpoints are sent
ViewNames == {"Smulders", "Jansen"}
LastNames == {"Smulders", "Jansen", "De Vries", "Bakker"}
FirstNames == {"Harrie", "Anna", "Jan", "Els"}
MiddleNames == {<<>>, <<"">>, <<"van">>, <<"de">>, <<"van de">>}
Stamps == {"2025-01-01T10:00:00Z", "2025-06-01T12:30:00Z"}

ArcherRows ==
    [last_name : LastNames, first_name : FirstNames, middle_name : MiddleNames]

\* a Membership instance with its archer loaded
Instances ==
    [id : 1..MaxMids, created_at : Stamps, modified_at : Stamps, archer : ArcherRows]

Harrie ==
    [id |-> 1, created_at |-> "2025-01-01T10:00:00Z", modified_at |-> "2025-01-01T10:00:00Z",
     archer |-> [last_name |-> "Smulders", first_name |-> "Harrie", middle_name |-> <<"">>]]

NoData == [type |-> "none"]

\* `if self.middle_name:` -- None and "" are both false
Truthy(opt) == opt # <<>> /\ opt[1] # ""

\* Archer.__str__
ArcherStrTrimmed(a) ==
    IF Truthy(a.middle_name)
    THEN a.last_name \o " " \o a.first_name \o " " \o a.middle_name[1]
    ELSE a.last_name \o " " \o a.first_name
ArcherStr(a) ==
    LET s_middle_name == IF Truthy(a.middle_name) THEN a.middle_name[1] ELSE ""
    IN a.last_name \o " " \o a.first_name \o " " \o s_middle_name

\* MembershipSerializer.to_representation: fields id, created_at, modified_at
\* and archer, the latter a StringRelatedField, that is str(instance.archer)
ToRepresentation(m) ==
    [type |-> "object", id |-> m.id, created_at |-> m.created_at,
     modified_at |-> m.modified_at, archer |-> ArcherStr(m.archer)]

\* ----------------------------------------------------------------- actions
Init ==
    /\ chapter \in Chapters
    /\ archers = ArcherIds
    /\ clubs = << >>
    /\ memberships = {}
    /\ nextClub = 1
    /\ nextMid = 1
    /\ pc = [p \in Procs |-> "idle"]
    /\ req = [p \in Procs |-> NoReq]
    /\ idx = [p \in Procs |-> 0]
    /\ tx = [p \in Procs |-> NoTx]
    /\ pre = [p \in Procs |-> NoState]
    /\ intf = [p \in Procs |-> FALSE]
    /\ lastList = [c \in ClubIds |-> <<>>]
    /\ calls = 0
    /\ overlap = [p \in Procs |-> FALSE]
    /\ users = UserIds
    /\ clubAuthor = << >>
    /\ archerName = [a \in ArcherIds |-> "Smulders"]
    /\ http = NoHttp
    /\ info = NoInfo
    /\ result = NoResult
    /\ average = NotRead
    /\ outcome = NoOutcome
    /\ nextArcher = NumArchers + 1
    /\ instance = Harrie
    /\ data = NoData

\* Club.name = CharField(max_length=64, null=False, blank=False): the
\* serializer's field is required, not blank and at most 64 characters long
NameValidAlways(named, n) == TRUE
NameValid(named, n) == named /\ n # "" /\ Len(n) <= MaxNameLen

\* the nested serializer's `archer` field is a PrimaryKeyRelatedField over
\* Archer.objects.all(): every entry must be the id of a stored Archer
RefsValidAlways(refs) == TRUE
RefsValid(refs) == \A i \in 1..Len(refs) : refs[i] \in archers

\* serializer.is_valid(): the request handler parses the payload; every
\* {archer: id} entry is resolved against the Archer table (the nested
\* MembershipSerializer's `archer` field), an unknown id is a validation error.
CallFrom(p, names, keys) ==
    /\ pc[p] = "idle" \/ Finished(p)
    /\ calls < MaxCalls
    /\ \E op \in {"create", "update"}, c \in DOMAIN clubs \cup {NoClub},
          named \in keys, n \in names, has \in BOOLEAN, refs \in RefLists :
        /\ op = "update" => OffersUpdate
        /\ ~named => n = ""
        /\ (op = "create") = (c = NoClub)
        /\ ~has => refs = <<>>
        /\ op = "create" =>
              nextClub + SumPendingClub(Procs \ {p}) <= MaxClubs
        /\ (nextMid - 1) + SumPendingIns(Procs \ {p}) + Len(refs) <= MaxMids
        /\ req' = [req EXCEPT ![p] =
                     [op |-> op, club |-> c, named |-> named, name |-> n,
                      has |-> has, refs |-> refs]]
        /\ pc' = [pc EXCEPT ![p] =
                     IF /\ NameValid(named, n)
                        /\ RefsValid(refs)
                     THEN "valid" ELSE "ValidationError"]
    /\ idx' = [idx EXCEPT ![p] = 0]
    /\ pre' = [pre EXCEPT ![p] = NoState]
    /\ overlap' = [overlap EXCEPT ![p] = FALSE]
    /\ calls' = calls + 1
    /\ UNCHANGED <<aux, clubAuthor, chapter, archers, clubs, memberships, nextClub, nextMid, tx, lastList>>
    /\ Track(p, TRUE)

\* a request whose body has a well-formed name
Call(p) == CallFrom(p, Names, {TRUE})

\* update(): validated_data.pop('memberships') with the key missing
UpdateKeyError(p) ==
    /\ pc[p] = "valid"
    /\ req[p].op = "update"
    /\ ~req[p].has
    /\ pc' = [pc EXCEPT ![p] = "KeyError"]
    /\ pre' = [pre EXCEPT ![p] = ClubState(req[p].club)]
    /\ UNCHANGED <<aux, clubAuthor, chapter, archers, clubs, memberships, nextClub, nextMid,
                   req, idx, tx, lastList, calls, overlap>>
    /\ Track(p, TRUE)

\* update(): instance = super().update(instance, validated_data), the first
\* statement of the atomic block.  instance.save() issues UPDATE and, when no
\* row matched (the Club was deleted after the view loaded it), INSERT.
UpdateClub(p) ==
    /\ pc[p] = "valid"
    /\ req[p].op = "update"
    /\ req[p].has
    /\ ~ClubRowLocked(req[p].club, p)
    /\ Write(p, [club |-> req[p].club, name |-> req[p].name, del |-> {}, ins |-> {}])
    /\ pc' = [pc EXCEPT ![p] = "updated"]
    /\ pre' = [pre EXCEPT ![p] = ClubState(req[p].club)]
    /\ overlap' = [overlap EXCEPT ![p] =
                      \E q \in Procs \ {p} : /\ pc[q] \in {"valid", "updated", "inserting"}
                                              /\ req[q].club = req[p].club]
    /\ UNCHANGED <<aux, clubAuthor, chapter, archers, nextClub, nextMid, req, idx, lastList, calls>>
    /\ Track(p, TRUE)

\* update(): instance.memberships.all().delete() (membership_data is never
\* None once the pop succeeded)
DeleteOld(p) ==
    /\ pc[p] = "updated"
    /\ Write(p, [club |-> NoClub, name |-> "", del |-> RowsToDelete(req[p].club), ins |-> {}])
    /\ pc' = [pc EXCEPT ![p] = "inserting"]
    /\ idx' = [idx EXCEPT ![p] = 1]
    /\ UNCHANGED <<aux, clubAuthor, chapter, archers, nextClub, nextMid, req, pre, lastList, calls, overlap>>
    /\ Track(p, FALSE)

\* create(): validated_data.pop('memberships') with the key missing
CreateKeyError(p) ==
    /\ pc[p] = "valid"
    /\ req[p].op = "create"
    /\ ~req[p].has
    /\ pc' = [pc EXCEPT ![p] = "KeyError"]
    /\ UNCHANGED <<aux, clubAuthor, chapter, archers, clubs, memberships, nextClub, nextMid,
                   req, idx, tx, pre, lastList, calls, overlap>>
    /\ Track(p, TRUE)

\* create(): club = Club.objects.create(**validated_data)
CreateClub(p) ==
    /\ pc[p] = "valid"
    /\ req[p].op = "create"
    /\ req[p].has
    /\ FkAuthorOk
    /\ req' = [req EXCEPT ![p].club = nextClub]
    /\ nextClub' = nextClub + 1
    /\ Write(p, [club |-> nextClub, name |-> req[p].name, del |-> {}, ins |-> {}])
    /\ pc' = [pc EXCEPT ![p] = "inserting"]
    /\ idx' = [idx EXCEPT ![p] = 1]
    /\ clubAuthor' = clubAuthor @@ (nextClub :> DefaultAuthor)
    /\ UNCHANGED <<aux, chapter, archers, nextMid, pre, lastList, calls, overlap>>
    /\ Track(p, TRUE)

\* create()/update(): Membership.objects.create(club=club, **membership), one
\* turn of the loop.  The row's foreign keys are checked by the store.
InsertMembership(p) ==
    /\ pc[p] = "inserting"
    /\ ~LoopDone(p)
    /\ FkClubOk(p, req[p].club)
    /\ FkArcherOk(Entry(p))
    /\ FkAuthorOk
    /\ Write(p, [club |-> NoClub, name |-> "", del |-> {},
                 ins |-> {[id |-> NewId(p), club |-> req[p].club,
                           archer |-> Entry(p), author |-> DefaultAuthor]}])
    /\ nextMid' = nextMid + 1
    /\ idx' = [idx EXCEPT ![p] = @ + 1]
    /\ UNCHANGED <<aux, clubAuthor, chapter, archers, nextClub, pc, req, pre, lastList, calls, overlap>>
    /\ Track(p, FALSE)

\* the same statement refused by a foreign key: IntegrityError leaves the
\* handler; an atomic block rolls its writes back on the way out.
InsertFails(p) ==
    /\ pc[p] = "inserting"
    /\ ~LoopDone(p)
    /\ ~(FkClubOk(p, req[p].club) /\ FkArcherOk(Entry(p)) /\ FkAuthorOk)
    /\ pc' = [pc EXCEPT ![p] = "IntegrityError"]
    /\ tx' = [tx EXCEPT ![p] = NoTx]
    /\ UNCHANGED <<aux, clubAuthor, chapter, archers, clubs, memberships, nextClub, nextMid,
                   req, idx, pre, lastList, calls, overlap>>
    /\ Track(p, FALSE)

\* the loop is over: the atomic block commits, `return instance` / `return club`
Commit(p) ==
    /\ pc[p] = "inserting"
    /\ LoopDone(p)
    /\ clubs' = ClubsAfter(tx[p])
    /\ memberships' = MembershipsAfter(tx[p])
    /\ tx' = [tx EXCEPT ![p] = NoTx]
    /\ pc' = [pc EXCEPT ![p] = "done"]
    /\ lastList' = [lastList EXCEPT ![req[p].club] = req[p].refs]
    /\ UNCHANGED <<aux, clubAuthor, chapter, archers, nextClub, nextMid, req, idx, pre, calls, overlap>>
    /\ Track(p, FALSE)

\* DELETE on an archer: Membership.archer is on_delete=PROTECT, so the delete
\* goes through only while no Membership row references the archer; a row a
\* running transaction has inserted keeps the Archer row share-locked.
DeleteArcher(a) ==
    /\ a \in archers
    /\ ~ArcherProtected(a)
    /\ \A q \in Procs : \A m \in tx[q].ins : m.archer # a
    /\ archers' = archers \ {a}
    /\ UNCHANGED <<aux, clubAuthor, chapter, clubs, memberships, nextClub, nextMid,
                   pc, req, idx, tx, pre, lastList, calls, overlap>>
    /\ Track("none", FALSE)

\* DELETE on a club: Membership.club is on_delete=PROTECT; the delete waits for
\* a transaction that holds the row's lock.
DeleteClub(c) ==
    /\ c \in DOMAIN clubs
    /\ ~ClubProtected(c)
    /\ ~ClubRowLocked(c, "none")
    /\ clubs' = [d \in DOMAIN clubs \ {c} |-> clubs[d]]
    /\ lastList' = [lastList EXCEPT ![c] = <<>>]
    /\ UNCHANGED <<aux, clubAuthor, chapter, archers, memberships, nextClub, nextMid,
                   pc, req, idx, tx, pre, calls, overlap>>
    /\ Track("none", FALSE)

\* a step of a create or update request
Request(p) ==
    \/ Call(p)
    \/ UpdateKeyError(p)
    \/ UpdateClub(p)
    \/ DeleteOld(p)
    \/ CreateKeyError(p)
    \/ CreateClub(p)
    \/ InsertMembership(p)
    \/ InsertFails(p)
    \/ Commit(p)

Next ==
    \/ \E p \in Procs : Request(p)
    \/ \E a \in ArcherIds : DeleteArcher(a)
    \/ \E c \in ClubIds : DeleteClub(c)

Spec == Init /\ [][Next]_vars

\* ------------------------------------------------- refused delete requests
\* DELETE on an archer that a Membership row references: the collector finds
\* the protected rows and raises ProtectedError before any DELETE statement.
DeleteArcherRefused(a) ==
    /\ a \in archers
    /\ ArcherProtected(a)
    /\ outcome' = [op |-> "delete_archer", id |-> a, error |-> "ProtectedError"]
    /\ UNCHANGED <<users, nextArcher, instance, data, clubAuthor, archerName, views, chapter, archers, clubs, memberships, nextClub, nextMid,
                   pc, req, idx, tx, pre, intf, lastList, calls, overlap>>

\* DELETE on a club that still has Membership rows: ProtectedError as well.
DeleteClubRefused(c) ==
    /\ c \in DOMAIN clubs
    /\ ClubProtected(c)
    /\ outcome' = [op |-> "delete_club", id |-> c, error |-> "ProtectedError"]
    /\ UNCHANGED <<users, nextArcher, instance, data, clubAuthor, archerName, views, chapter, archers, clubs, memberships, nextClub, nextMid,
                   pc, req, idx, tx, pre, intf, lastList, calls, overlap>>

Init27 == Init /\ chapter = 27

NextDelete ==
    \/ Next
    \/ \E a \in ArcherIds : DeleteArcherRefused(a)
    \/ \E c \in ClubIds : DeleteClubRefused(c)

SpecDelete == Init27 /\ [][NextDelete]_vars

\* ------------------------------------------------------------ user rows
\* on_delete=models.PROTECT of the author keys: deleting User u is refused
\* while an Archer, Club or Membership row has u as its author
UserProtectedNever(u) == FALSE
UserProtected(u) ==
    \/ \E a \in archers : ArcherAuthor(a) = u
    \/ \E c \in DOMAIN clubs : clubAuthor[c] = u
    \/ \E m \in memberships : m.author = u

\* a running transaction has written a row whose author is u
AuthorPending(u) ==
    u = DefaultAuthor /\ \E q \in Procs : tx[q].club # NoClub \/ tx[q].ins # {}

\* the admin site deletes a user (UserAdmin); the delete waits for a
\* transaction that has written a row of that author
DeleteUser(u) ==
    /\ u \in users
    /\ ~UserProtected(u)
    /\ ~AuthorPending(u)
    /\ users' = users \ {u}
    /\ UNCHANGED <<outcome, nextArcher, instance, data, clubAuthor, archerName, views,
                   calling>>

DeleteUserRefused(u) ==
    /\ u \in users
    /\ UserProtected(u)
    /\ outcome' = [op |-> "delete_user", id |-> u, error |-> "ProtectedError"]
    /\ UNCHANGED <<users, nextArcher, instance, data, clubAuthor, archerName, views,
                   calling>>

\* create(): Club.objects.create(**validated_data) with author_id 1 and no
\* such user: IntegrityError, nothing is written
CreateClubFails(p) ==
    /\ pc[p] = "valid"
    /\ req[p].op = "create"
    /\ req[p].has
    /\ ~FkAuthorOk
    /\ pc' = [pc EXCEPT ![p] = "IntegrityError"]
    /\ UNCHANGED <<aux, clubAuthor, chapter, archers, clubs, memberships, nextClub, nextMid,
                   req, idx, tx, pre, lastList, calls, overlap>>
    /\ Track(p, TRUE)

NextUser ==
    \/ Next
    \/ \E p \in Procs : CreateClubFails(p)
    \/ \E u \in UserIds : DeleteUser(u) \/ DeleteUserRefused(u)

SpecUser == Init27 /\ [][NextUser]_vars

\* ----------------------------------------------------------- Result.average
\* a field value that may be None: <<>> is None, <<n>> the number n
Opt(S) == {<<>>} \cup {<<n>> : n \in S}

\* score and arrows are PositiveSmallIntegerFields; an instance not saved yet
\* may hold None
Results == [score : Opt(0..MaxScore), arrows : Opt(0..MaxArrows)]

\* the truth value Python gives a number or None
PyTrue(opt) == opt # <<>> /\ opt[1] # 0

\* round(s / a, 2), in hundredths: the nearest hundredth, a tie going to the
\* even one (a tie is an odd multiple of 0.005; for fewer than 40 arrows it
\* is a multiple of 1/8, which the float division yields exactly)
Round2(s, a) ==
    LET q == (100 * s) \div a
        r == (100 * s) % a
    IN IF 2 * r > a THEN q + 1
       ELSE IF 2 * r < a THEN q
       ELSE IF q % 2 = 0 THEN q ELSE q + 1

AverageNone == [read |-> TRUE, none |-> TRUE, hundredths |-> 0, error |-> ""]
AverageError(e) == [read |-> TRUE, none |-> FALSE, hundredths |-> 0, error |-> e]

\* Result.average
AverageUnguarded(r) ==
    IF PyTrue(r.score)
    THEN IF r.arrows = <<>> THEN AverageError("TypeError")
         ELSE IF r.arrows[1] = 0 THEN AverageError("ZeroDivisionError")
         ELSE [read |-> TRUE, none |-> FALSE,
               hundredths |-> Round2(r.score[1], r.arrows[1]), error |-> ""]
    ELSE AverageNone
Average(r) ==
    IF PyTrue(r.score) /\ PyTrue(r.arrows)
    THEN IF r.arrows[1] > 0
         THEN [read |-> TRUE, none |-> FALSE,
               hundredths |-> Round2(r.score[1], r.arrows[1]), error |-> ""]
         ELSE AverageNone
    ELSE AverageNone

\* a Result instance is at hand
LoadResult ==
    /\ result' \in Results
    /\ average' = NotRead
    /\ UNCHANGED <<calling, users, outcome, nextArcher, instance, data, clubAuthor,
                   archerName, http, info>>

\* result.average is read
ReadAverage ==
    /\ ~average.read
    /\ average' = Average(result)
    /\ UNCHANGED <<calling, users, outcome, nextArcher, instance, data, clubAuthor,
                   archerName, http, info, result>>

NextAverage == LoadResult \/ ReadAverage

SpecAverage == Init /\ [][NextAverage]_vars

\* ------------------------------------------------------ invalid requests
\* a request with any name, or with no name at all
Submit(p) == CallFrom(p, Names \cup BadNames, BOOLEAN)

NextValid == Next \/ \E p \in Procs : Submit(p)

SpecValid == Init27 /\ [][NextValid]_vars

\* ------------------------------------- other writers of Membership rows
\* the sample rows of populate_db
SeedArcherNames == <<"Smulders", "Jansen", "Vanalles">>
SeedClubNames == <<"De Boogschutters", "De Pijlen", "De Schutters", "De Pijl", "De Boog">>

\* `for archer in archers: for club in clubs:` over every stored row
SeedPairsFirstClub(as, cs) == {pr \in as \X cs : \A c \in cs : pr[2] <= c}
SeedPairs(as, cs) == as \X cs

\* position of pair pr in the order the loops visit the pairs
Rank(pr, pairs) ==
    Cardinality({q \in pairs : q[1] < pr[1] \/ (q[1] = pr[1] /\ q[2] <= pr[2])})

\* manage.py populate_db: the superuser (unless there is one), three archers,
\* five clubs, then a Membership row for every stored archer and club
PopulateDb ==
    /\ nextArcher <= NumArchers + (MaxSeeds - 1) * Len(SeedArcherNames) + 1
    /\ LET newA == nextArcher..(nextArcher + Len(SeedArcherNames) - 1)
           newC == nextClub..(nextClub + Len(SeedClubNames) - 1)
           allC == [c \in DOMAIN clubs \cup newC |->
                      IF c \in newC THEN SeedClubNames[c - nextClub + 1] ELSE clubs[c]]
           pairs == SeedPairs(archers \cup newA, DOMAIN allC)
       IN /\ users' = users \cup {SuperUser}
          /\ archers' = archers \cup newA
          /\ nextArcher' = nextArcher + Len(SeedArcherNames)
          /\ clubs' = allC
          /\ clubAuthor' = clubAuthor @@ [c \in newC |-> DefaultAuthor]
          /\ archerName' = archerName @@ [a \in newA |-> SeedArcherNames[a - nextArcher + 1]]
          /\ nextClub' = nextClub + Len(SeedClubNames)
          /\ memberships' = memberships \cup
                {[id |-> nextMid + Rank(pr, pairs) - 1, club |-> pr[2], archer |-> pr[1],
                  author |-> DefaultAuthor] :
                     pr \in pairs}
          /\ nextMid' = nextMid + Cardinality(pairs)
    /\ outcome' = [op |-> "populate_db", id |-> 0, error |-> ""]
    /\ UNCHANGED <<chapter, pc, req, idx, tx, pre, lastList, calls, overlap, instance, data, views>>
    /\ Track("none", FALSE)

\* the admin site's add form of MembershipAdmin: one row for a stored archer
\* and a stored club
AdminAddMembership(a, c) ==
    /\ a \in archers
    /\ c \in DOMAIN clubs
    /\ nextMid + SumPendingIns(Procs) <= MaxMids
    /\ memberships' = memberships \cup
          {[id |-> nextMid, club |-> c, archer |-> a, author |-> DefaultAuthor]}
    /\ nextMid' = nextMid + 1
    /\ outcome' = [op |-> "admin_add", id |-> nextMid, error |-> ""]
    /\ UNCHANGED <<chapter, archers, clubs, nextClub, pc, req, idx, tx, pre, lastList,
                   calls, overlap, users, nextArcher, instance, data,
                   clubAuthor, archerName, views>>
    /\ Track("none", FALSE)

\* the requests of one client, next to the command, the admin form and the
\* delete requests
Client == CHOOSE p \in Procs : TRUE

NextRepo ==
    \/ Request(Client)
    \/ PopulateDb
    \/ \E a \in ArcherIds, c \in ClubIds : AdminAddMembership(a, c)
    \/ \E a \in ArcherIds : DeleteArcher(a)
    \/ \E c \in ClubIds : DeleteClub(c)

SpecRepo == Init27 /\ [][NextRepo]_vars

\* ------------------------------------------------- serializing a Membership
\* a Membership instance is read for output
Load ==
    /\ instance' \in Instances
    /\ data' = NoData
    /\ UNCHANGED <<calling, users, outcome, nextArcher, clubAuthor, archerName, views>>

\* serializer.data
Serialize ==
    /\ data = NoData
    /\ data' = ToRepresentation(instance)
    /\ UNCHANGED <<calling, users, outcome, nextArcher, instance, clubAuthor, archerName, views>>

NextStr == Load \/ Serialize

SpecStr == Init /\ [][NextStr]_vars

TypeOK ==
    /\ chapter \in Chapters
    /\ archers \subseteq ArcherIds
    /\ DOMAIN clubs \subseteq ClubIds
    /\ \A m \in memberships : m.archer \in ArcherIds
    /\ \A p \in Procs : pc[p] \in {"idle", "valid", "updated", "inserting", "done"} \cup Errors

\* -------------------------------------------------------------- the views
\* who sends a request: nobody logged in, a logged-in user, a staff user
Callers == {"anonymous", "member", "staff"}
IsAuthenticatedUser(who) == who # "anonymous"
IsStaff(who) == who = "staff"

\* rest_framework.permissions: AllowAny, IsAuthenticated, IsAdminUser
HasPermission(class, who) ==
    CASE class = "AllowAny" -> TRUE
      [] class = "IsAuthenticated" -> IsAuthenticatedUser(who)
      [] class = "IsAdminUser" -> IsStaff(who)

\* ArcherListCreateAPIView.get_permissions
ArcherListPermission(method) ==
    IF method = "POST" THEN "IsAdminUser" ELSE "AllowAny"

\* ArcherDetailAPIView.get_permissions
ArcherDetailPermissionOpen(method) == "AllowAny"
ArcherDetailPermission(method) ==
    IF method \in {"PUT", "PATCH", "DELETE"} THEN "IsAdminUser" ELSE "AllowAny"

\* ClubViewSet.permission_classes, the same for every action
ClubPermissionReadOpen(action) ==
    IF action \in {"list", "retrieve"} THEN "AllowAny" ELSE "IsAuthenticated"
ClubPermission(action) == "IsAuthenticated"

\* the Archer table as a reader finds it
ArcherTable == [a \in archers |-> archerName[a]]

Reply(view, method, who, status, rows) ==
    [view |-> view, method |-> method, caller |-> who, status |-> status, rows |-> rows]

\* what no view writes
beside == <<chapter, nextMid, pc, req, idx, tx, pre, calls, overlap, users, outcome,
            instance, data, result, average>>

\* GET and POST on the archer list
ArcherListRequest(who, method, name) ==
    /\ method \in {"GET", "POST"}
    /\ IF ~HasPermission(ArcherListPermission(method), who)
       THEN /\ http' = Reply("archer-list", method, who, "denied", {})
            /\ UNCHANGED <<archers, archerName, nextArcher>>
       ELSE IF method = "GET"
       THEN /\ http' = Reply("archer-list", method, who, "ok", archers)
            /\ UNCHANGED <<archers, archerName, nextArcher>>
       ELSE /\ nextArcher <= NumArchers + MaxPosts
            /\ archers' = archers \cup {nextArcher}
            /\ archerName' = archerName @@ (nextArcher :> name)
            /\ nextArcher' = nextArcher + 1
            /\ http' = Reply("archer-list", method, who, "created", {nextArcher})
    /\ UNCHANGED <<beside, clubs, clubAuthor, memberships, nextClub, lastList, intf, info>>

\* GET, PUT, PATCH and DELETE on one archer; permissions are checked before
\* the row is looked up
ArcherDetailRequest(who, method, a, name) ==
    /\ method \in {"GET", "PUT", "PATCH", "DELETE"}
    /\ IF ~HasPermission(ArcherDetailPermission(method), who)
       THEN /\ http' = Reply("archer-detail", method, who, "denied", {})
            /\ UNCHANGED <<archers, archerName>>
       ELSE IF a \notin archers
       THEN /\ http' = Reply("archer-detail", method, who, "not_found", {})
            /\ UNCHANGED <<archers, archerName>>
       ELSE IF method = "GET"
       THEN /\ http' = Reply("archer-detail", method, who, "ok", {a})
            /\ UNCHANGED <<archers, archerName>>
       ELSE IF method \in {"PUT", "PATCH"}
       THEN /\ archerName' = [archerName EXCEPT ![a] = name]
            /\ http' = Reply("archer-detail", method, who, "ok", {a})
            /\ UNCHANGED archers
       ELSE IF ArcherProtected(a)
       THEN /\ http' = Reply("archer-detail", method, who, "ProtectedError", {})
            /\ UNCHANGED <<archers, archerName>>
       ELSE /\ archers' = archers \ {a}
            /\ http' = Reply("archer-detail", method, who, "deleted", {})
            /\ UNCHANGED archerName
    /\ UNCHANGED <<beside, clubs, clubAuthor, memberships, nextClub, nextArcher, lastList,
                   intf, info>>

ClubActions == {"list", "retrieve", "create", "update", "partial_update", "destroy"}

\* the six actions of ClubViewSet; ClubSerializer's memberships are read-only,
\* so create and update write the Club row only
ClubRequest(who, action, c, name) ==
    /\ action \in ClubActions
    /\ IF ~HasPermission(ClubPermission(action), who)
       THEN /\ http' = Reply("club", action, who, "denied", {})
            /\ UNCHANGED <<clubs, clubAuthor, nextClub, lastList>>
       ELSE IF action = "list"
       THEN /\ http' = Reply("club", action, who, "ok", DOMAIN clubs)
            /\ UNCHANGED <<clubs, clubAuthor, nextClub, lastList>>
       ELSE IF action = "create"
       THEN /\ nextClub <= MaxClubs
            /\ FkAuthorOk
            /\ clubs' = clubs @@ (nextClub :> name)
            /\ clubAuthor' = clubAuthor @@ (nextClub :> DefaultAuthor)
            /\ nextClub' = nextClub + 1
            /\ http' = Reply("club", action, who, "created", {nextClub})
            /\ UNCHANGED lastList
       ELSE IF c \notin DOMAIN clubs
       THEN /\ http' = Reply("club", action, who, "not_found", {})
            /\ UNCHANGED <<clubs, clubAuthor, nextClub, lastList>>
       ELSE IF action = "retrieve"
       THEN /\ http' = Reply("club", action, who, "ok", {c})
            /\ UNCHANGED <<clubs, clubAuthor, nextClub, lastList>>
       ELSE IF action \in {"update", "partial_update"}
       THEN /\ clubs' = [clubs EXCEPT ![c] = name]
            /\ http' = Reply("club", action, who, "ok", {c})
            /\ UNCHANGED <<clubAuthor, nextClub, lastList>>
       ELSE IF ClubProtected(c)
       THEN /\ http' = Reply("club", action, who, "ProtectedError", {})
            /\ UNCHANGED <<clubs, clubAuthor, nextClub, lastList>>
       ELSE /\ clubs' = [d \in DOMAIN clubs \ {c} |-> clubs[d]]
            /\ lastList' = [lastList EXCEPT ![c] = <<>>]
            /\ http' = Reply("club", action, who, "deleted", {})
            /\ UNCHANGED <<clubAuthor, nextClub>>
    /\ UNCHANGED <<beside, archers, archerName, memberships, nextArcher, intf, info>>

\* the rows serializer.data goes through: the queryset's result cache, filled
\* when len(archers) ran the query
ListServedFresh(cache) == ArcherTable
ListServed(cache) == cache

\* ArcherInfoAPIView.get, `'count': len(archers)`: the query runs
InfoQuery ==
    /\ info.stage # "queried"
    /\ info' = [stage |-> "queried", cache |-> ArcherTable, archers |-> << >>,
                count |-> Cardinality(DOMAIN ArcherTable)]
    /\ UNCHANGED <<calling, users, outcome, nextArcher, instance, data, clubAuthor,
                   archerName, http, result, average>>

\* ArcherInfoAPIView.get, `Response(serializer.data)`
InfoRespond ==
    /\ info.stage = "queried"
    /\ info' = [info EXCEPT !.stage = "sent", !.archers = ListServed(info.cache)]
    /\ UNCHANGED <<calling, users, outcome, nextArcher, instance, data, clubAuthor,
                   archerName, http, result, average>>

\* a store that holds one club with archer 1 as its member, served by the
\* views of Chapter021, where ClubSerializer is still the one of Chapter010
InitViews ==
    /\ chapter = 21
    /\ archers = ArcherIds
    /\ clubs = (1 :> "Concordia")
    /\ memberships = {[id |-> 1, club |-> 1, archer |-> 1, author |-> DefaultAuthor]}
    /\ nextClub = 2
    /\ nextMid = 2
    /\ pc = [p \in Procs |-> "idle"]
    /\ req = [p \in Procs |-> NoReq]
    /\ idx = [p \in Procs |-> 0]
    /\ tx = [p \in Procs |-> NoTx]
    /\ pre = [p \in Procs |-> NoState]
    /\ intf = [p \in Procs |-> FALSE]
    /\ lastList = [c \in ClubIds |-> <<>>]
    /\ calls = 0
    /\ overlap = [p \in Procs |-> FALSE]
    /\ users = UserIds
    /\ clubAuthor = (1 :> DefaultAuthor)
    /\ archerName = [a \in ArcherIds |-> "Smulders"]
    /\ http = NoHttp
    /\ info = NoInfo
    /\ result = NoResult
    /\ average = NotRead
    /\ outcome = NoOutcome
    /\ nextArcher = NumArchers + 1
    /\ instance = Harrie
    /\ data = NoData

ArcherListRequests ==
    \E who \in Callers, method \in {"GET", "POST"}, name \in ViewNames :
       ArcherListRequest(who, method, name)

ArcherDetailRequests ==
    \E who \in Callers, method \in {"GET", "PUT", "PATCH", "DELETE"},
       a \in 1..(NumArchers + MaxPosts), name \in ViewNames :
       ArcherDetailRequest(who, method, a, name)

NextArchers == ArcherListRequests \/ ArcherDetailRequests \/ InfoQuery \/ InfoRespond

SpecArchers == InitViews /\ [][NextArchers]_vars

NextClubs ==
    \E who \in Callers, action \in ClubActions, c \in ClubIds, name \in Names :
          ClubRequest(who, action, c, name)

SpecClubs == InitViews /\ [][NextClubs]_vars

\* ------------------------------------------------------------------ claims
Create27(p) == chapter = 27 /\ req[p].op = "create"
Update27(p) == chapter = 27 /\ req[p].op = "update"
InvalidRef(p) == \E i \in 1..Len(req[p].refs) : req[p].refs[i] \notin archers

\* C1: a create call with a member_ref that identifies no stored Archer fails,
\* and the store then holds neither the Club row nor any Membership row of
\* that call.
C1_CreateInvalidRefStoresNothing ==
    \A p \in Procs :
        (Create27(p) /\ Finished(p) /\ ~intf[p] /\ InvalidRef(p))
            => /\ pc[p] \in Errors
               /\ ClubState(req[p].club) = NoState

\* the create had written the Club and one Membership row when the next
\* insert met an archer that no longer exists
C1_Witness ==
    \E p \in Procs :
        /\ Create27(p) /\ pc[p] = "IntegrityError" /\ ~intf[p]
        /\ idx[p] = 2 /\ InvalidRef(p)

\* C2: after a successful update with a non-empty member_refs list the club's
\* Membership rows reference exactly the archers of the list, duplicates
\* counted, whatever rows the club had before.
C2_UpdateReplacesMembers ==
    \A p \in Procs :
        (Update27(p) /\ pc[p] = "done" /\ req[p].refs # <<>> /\ ~intf[p])
            => SameMembers(ClubRows(req[p].club), req[p].refs)

\* an update to a list with a duplicate, on a club whose rows were different
C2_Witness ==
    \E p \in Procs :
        /\ Update27(p) /\ pc[p] = "done" /\ ~intf[p]
        /\ Len(req[p].refs) = 2 /\ req[p].refs[1] = req[p].refs[2]
        /\ pre[p].rows # {}
        /\ ~SameMembers(pre[p].rows, req[p].refs)

\* C3: an update without the memberships key succeeds, overwrites the scalar
\* attributes and leaves the club's Membership rows as they were.
C3_UpdateWithoutMembersSucceeds ==
    \A p \in Procs :
        (Update27(p) /\ ~req[p].has /\ Finished(p) /\ ~intf[p])
            => /\ pc[p] = "done"
               /\ ClubState(req[p].club) =
                     [exists |-> TRUE, name |-> req[p].name, rows |-> pre[p].rows]

\* C4: an update with member_refs = [] succeeds and leaves the club without
\* Membership rows, whatever rows it had.
C4_UpdateEmptyListClears ==
    \A p \in Procs :
        (Update27(p) /\ req[p].has /\ req[p].refs = <<>> /\ Finished(p) /\ ~intf[p])
            => /\ pc[p] = "done"
               /\ ClubRows(req[p].club) = {}

C4_Witness ==
    \E p \in Procs :
        /\ Update27(p) /\ req[p].has /\ req[p].refs = <<>>
        /\ pc[p] = "done" /\ ~intf[p]
        /\ pre[p].rows # {}

\* C5: an update that fails after update() was entered leaves the club's
\* scalar attributes and Membership rows as they were when it was entered.
C5_FailedUpdateChangesNothing ==
    \A p \in Procs :
        (/\ chapter \in {25, 27} /\ req[p].op = "update"
         /\ pc[p] \in {"KeyError", "IntegrityError"} /\ ~intf[p])
            => ClubState(req[p].club) = pre[p]

\* the failing update had overwritten the name, deleted the old rows and
\* inserted one new row inside its transaction
C5_Witness ==
    \E p \in Procs :
        /\ chapter \in {25, 27} /\ req[p].op = "update"
        /\ pc[p] = "IntegrityError" /\ ~intf[p]
        /\ idx[p] = 2
        /\ pre[p].rows # {}
        /\ pre[p].name # req[p].name

\* C6: in every serializer variant a create whose k-th Membership insert
\* fails leaves neither the Club row nor the k-1 rows inserted before it.
C6_CreateAllOrNothingEveryVariant ==
    \A p \in Procs :
        (req[p].op = "create" /\ pc[p] = "IntegrityError" /\ ~intf[p])
            => ClubState(req[p].club) = NoState

\* C7: while an update replaces a club's memberships, a reader outside the
\* transaction sees the complete old set of rows or the complete new one.
C7_ReadersSeeOldOrNewSet ==
    \A p \in Procs :
        (Update27(p) /\ pc[p] \in {"updated", "inserting"})
            => \/ ClubRows(req[p].club) = pre[p].rows
               \/ /\ ClubRows(req[p].club) \cap pre[p].rows = {}
                  /\ SameMembers(ClubRows(req[p].club), req[p].refs)

\* inside the transaction the old rows are deleted and one of two new rows is
\* inserted
C7_Witness ==
    \E p \in Procs :
        /\ Update27(p) /\ pc[p] = "inserting"
        /\ Len(req[p].refs) = 2 /\ idx[p] = 2
        /\ pre[p].rows # {}
        /\ tx[p].del = pre[p].rows
        /\ Cardinality(tx[p].ins) = 1

\* C8: two updates of the same club that both commit leave the club with the
\* member list of the one that committed last, never a mixture of both lists.
C8_ConcurrentUpdatesLastWins ==
    \A p, q \in Procs :
        (/\ p # q /\ Update27(p) /\ Update27(q)
         /\ req[p].club = req[q].club
         /\ pc[p] = "done" /\ pc[q] = "done")
            => /\ lastList[req[p].club] \in {req[p].refs, req[q].refs}
               /\ SameMembers(ClubRows(req[p].club), lastList[req[p].club])

\* both committed, with different non-empty lists, and the second request was
\* already under way when the first entered update()
C8_Witness ==
    \E p, q \in Procs :
        /\ p # q /\ Update27(p) /\ Update27(q)
        /\ req[p].club = req[q].club
        /\ pc[p] = "done" /\ pc[q] = "done"
        /\ overlap[p]
        /\ req[p].refs # <<>> /\ req[q].refs # <<>>
        /\ ~SameMembers(ClubRows(req[p].club), req[p].refs)

\* C9: in every observable state the Membership rows of a club are those of
\* the member list last submitted successfully for it.
C9_RowsAreLastSubmittedList ==
    chapter = 27 =>
        \A c \in ClubIds :
            IF c \in DOMAIN clubs
            THEN SameMembers(ClubRows(c), lastList[c])
            ELSE ClubRows(c) = {}

\* a club on its second list, after a failed update of it
C9_Witness ==
    \E p, q \in Procs :
        /\ Update27(p) /\ pc[p] = "done" /\ ~intf[p]
        /\ pre[p].rows # {} /\ req[p].refs # <<>>
        /\ Update27(q) /\ pc[q] = "IntegrityError"
        /\ req[q].club = req[p].club

\* C10: every Membership row references a stored Club and a stored Archer.
C10_NoDanglingReference ==
    \A m \in memberships :
        /\ m.club \in DOMAIN clubs
        /\ m.archer \in archers

\* Membership rows exist, an Archer was deleted and an insert was refused
C10_Witness ==
    /\ memberships # {}
    /\ archers # ArcherIds
    /\ \E p \in Procs : pc[p] = "IntegrityError"

\* ---------------------------------------------------------------- deletes
Tables == <<archers, archerName, clubs, memberships, users>>

\* a delete request for Archer a is answered in this step
ArcherDeleteStep(a) ==
    \/ a \in archers /\ a \notin archers'
    \/ outcome' # outcome /\ outcome'.op = "delete_archer" /\ outcome'.id = a

\* a delete request for Club c is answered in this step
ClubDeleteStep(c) ==
    \/ c \in DOMAIN clubs /\ c \notin DOMAIN clubs'
    \/ outcome' # outcome /\ outcome'.op = "delete_club" /\ outcome'.id = c

\* C11: a delete request for an Archer that at least one Membership row
\* references fails with ProtectedError, and the Archer row, the Membership
\* rows and every other table are as before.
C11_ReferencedArcherDeleteRefused ==
    [][\A a \in ArcherIds :
          ((\E m \in memberships : m.archer = a) /\ ArcherDeleteStep(a))
              => /\ outcome'.error = "ProtectedError"
                 /\ outcome'.op = "delete_archer"
                 /\ UNCHANGED Tables]_vars

\* the delete of a member of a stored club has been refused
C11_Witness ==
    /\ outcome.op = "delete_archer" /\ outcome.error = "ProtectedError"
    /\ outcome.id \in archers
    /\ \E m \in memberships : m.archer = outcome.id /\ m.club \in DOMAIN clubs

\* C16: a delete request for a Club that has Membership rows is refused and
\* changes nothing; a Club row is removed only when no Membership row
\* references it.
C16_ClubWithMembersDeleteRefused ==
    [][\A c \in ClubIds :
          /\ ((\E m \in memberships : m.club = c) /\ ClubDeleteStep(c))
                => /\ outcome'.error = "ProtectedError"
                   /\ outcome'.op = "delete_club"
                   /\ UNCHANGED Tables
          /\ (c \in DOMAIN clubs /\ c \notin DOMAIN clubs')
                => \A m \in memberships : m.club # c]_vars

\* the delete of a club with members has been refused, and the club and its
\* rows are still there
C16_Witness ==
    /\ outcome.op = "delete_club" /\ outcome.error = "ProtectedError"
    /\ outcome.id \in DOMAIN clubs
    /\ ClubRows(outcome.id) # {}

\* ------------------------------------------------------- create and update
\* C12: an update that finds the club with exactly the members of its own
\* non-empty list, as an earlier update with the same list left it, leaves
\* the club with the same multiset of archers.
C12_UpdateTwiceSameMembers ==
    \A p, q \in Procs :
        (/\ p # q /\ Update27(p) /\ Update27(q)
         /\ pc[p] = "done" /\ pc[q] = "done" /\ ~intf[q]
         /\ req[p].club = req[q].club
         /\ req[p].refs = req[q].refs /\ req[q].refs # <<>>
         /\ SameMembers(pre[q].rows, req[q].refs))
            => SameMembers(ClubRows(req[q].club), req[q].refs)

\* the second of two updates with the same list has replaced the rows of the
\* first by rows of other identities
C12_Witness ==
    \E p, q \in Procs :
        /\ p # q /\ Update27(p) /\ Update27(q)
        /\ pc[p] = "done" /\ pc[q] = "done" /\ ~intf[q]
        /\ req[p].club = req[q].club
        /\ req[p].refs = req[q].refs /\ req[q].refs # <<>>
        /\ SameMembers(pre[q].rows, req[q].refs)
        /\ ClubRows(req[q].club) \cap pre[q].rows = {}
        /\ ClubRows(req[q].club) # {}

\* the create call of p returns in this step
CreateReturns(p) == Create27(p) /\ pc[p] = "inserting" /\ pc'[p] = "done"

\* C13: a successful create with n member_refs adds exactly one Club row and
\* exactly n Membership rows, all of the new club, one per entry of the list
\* (an archer listed m times gets m rows).
C13_CreateAddsOneClubAndNRows ==
    [][\A p \in Procs :
          CreateReturns(p) =>
              LET c == req[p].club
                  new == memberships' \ memberships
              IN /\ c \notin DOMAIN clubs
                 /\ DOMAIN clubs' = DOMAIN clubs \cup {c}
                 /\ clubs'[c] = req[p].name
                 /\ memberships \subseteq memberships'
                 /\ Cardinality(new) = Len(req[p].refs)
                 /\ \A m \in new : m.club = c
                 /\ SameMembers(new, req[p].refs)]_vars

\* a create that listed the same archer twice has returned, and the club has
\* two rows for that archer
C13_Witness ==
    \E p \in Procs :
        /\ Create27(p) /\ pc[p] = "done" /\ ~intf[p]
        /\ Len(req[p].refs) = 2 /\ req[p].refs[1] = req[p].refs[2]
        /\ Cardinality(ClubRows(req[p].club)) = 2

\* C15: a create call whose validated data has no member list at all
\* succeeds and stores the Club with no Membership row.
C15_CreateWithoutMembersSucceeds ==
    \A p \in Procs :
        (Create27(p) /\ ~req[p].has /\ Finished(p))
            => /\ pc[p] = "done"
               /\ req[p].club \in DOMAIN clubs
               /\ ClubRows(req[p].club) = {}

\* a step of a create or update call
SerializerStep == <<pc, req, idx, tx>>' # <<pc, req, idx, tx>>

\* C17: no step of a create or update call removes or changes an Archer or a
\* User row, and none removes a Club row.
C17_CallsKeepArchersUsersClubs ==
    [][SerializerStep =>
          /\ archers' = archers
          /\ users' = users
          /\ DOMAIN clubs \subseteq DOMAIN clubs']_vars

\* an update has replaced rows; the archers of the rows it deleted, the
\* superuser and a second club are all still stored
C17_Witness ==
    \E p \in Procs :
        /\ Update27(p) /\ pc[p] = "done"
        /\ \E m \in pre[p].rows : m \notin memberships /\ m.archer \in archers
        /\ SuperUser \in users
        /\ \E d \in DOMAIN clubs : d # req[p].club

\* the update call of p is past validation and takes this step
UpdateStep(p) ==
    /\ req[p].op = "update"
    /\ pc[p] \in {"valid", "updated", "inserting"}
    /\ <<pc[p], idx[p], tx[p]>>' # <<pc[p], idx[p], tx[p]>>

\* C18: a step of an update of club C leaves every other club as it was: its
\* row, its name and its Membership rows, also when it shares archers with C.
C18_UpdateTouchesOnlyItsClub ==
    [][\A p \in Procs :
          UpdateStep(p) =>
              \A d \in ClubIds \ {req[p].club} : ClubState(d)' = ClubState(d)]_vars

\* an update of one club has replaced its rows while another club has a row
\* for an archer of the rows replaced
C18_Witness ==
    \E p \in Procs :
        /\ req[p].op = "update" /\ pc[p] = "done"
        /\ pre[p].rows # {} /\ pre[p].rows \cap memberships = {}
        /\ \E d \in DOMAIN clubs \ {req[p].club} :
              \E m \in pre[p].rows, k \in ClubRows(d) : m.archer = k.archer

\* -------------------------------------------------------------- serializing
\* the middle name as the display string shows it
MiddleShown(a) ==
    IF a.middle_name \in {<<>>, <<"">>} THEN "" ELSE a.middle_name[1]

\* C14 as stated: a Membership is serialized as its archer's display string
\* itself, last_name + ' ' + first_name + ' ' + middle_name.
C14_MembershipIsDisplayString ==
    data # NoData =>
        /\ data.type = "string"
        /\ data.value = instance.archer.last_name \o " " \o instance.archer.first_name
                            \o " " \o MiddleShown(instance.archer)

\* C14 (amended): a Membership is serialized as an object with the fields id,
\* created_at, modified_at and archer, and its archer field is the display
\* string last_name + ' ' + first_name + ' ' + middle_name, a missing or empty
\* middle_name contributing the empty string: "Smulders", "Harrie", "" gives
\* "Smulders Harrie " with the trailing space.
C14_ArcherFieldIsDisplayString ==
    data # NoData =>
        /\ data.type = "object"
        /\ DOMAIN data = {"type", "id", "created_at", "modified_at", "archer"}
        /\ data.id = instance.id
        /\ data.archer = instance.archer.last_name \o " " \o instance.archer.first_name
                             \o " " \o MiddleShown(instance.archer)
        /\ (/\ instance.archer.last_name = "Smulders"
            /\ instance.archer.first_name = "Harrie"
            /\ instance.archer.middle_name \in {<<>>, <<"">>})
              => data.archer = "Smulders Harrie "

\* Harrie Smulders, no middle name, has been serialized with the trailing space
C14_Witness ==
    /\ data # NoData
    /\ instance.archer.last_name = "Smulders"
    /\ instance.archer.first_name = "Harrie"
    /\ instance.archer.middle_name = <<>>
    /\ data.archer = "Smulders Harrie "

\* --------------------------------------------------------- scalar fields
\* the request's name is missing, empty or longer than 64 characters
BadName(r) == r.op # "none" /\ (~r.named \/ r.name = "" \/ Len(r.name) > 64)

\* C19: a create or update whose name is missing, empty or longer than 64
\* characters is rejected by validation: the call writes nothing, opens no
\* transaction and never enters create() or update().
C19_InvalidNameRejectedBeforeWrite ==
    [][\A p \in Procs :
          BadName(req'[p]) =>
              /\ pc'[p] = "ValidationError"
              /\ tx'[p] = NoTx
              /\ pre'[p] = NoState
              /\ idx'[p] = 0
              /\ (pc'[p] # pc[p] \/ req'[p] # req[p])
                    => UNCHANGED <<Tables, tx, nextClub, nextMid>>]_vars

\* an update of a stored club with members, its list valid, has been rejected
\* for a name of 65 characters
C19_Witness ==
    \E p \in Procs :
        /\ pc[p] = "ValidationError"
        /\ req[p].op = "update" /\ req[p].has /\ req[p].refs # <<>>
        /\ Len(req[p].name) > 64
        /\ \A i \in 1..Len(req[p].refs) : req[p].refs[i] \in archers
        /\ ClubRows(req[p].club) # {}
        /\ clubs[req[p].club] \in Names

\* ------------------------------------------------ who inserts Membership rows
NewRows == memberships' \ memberships

\* this step stores rows of p's create or update call: rows of its club, for
\* archers of its list
CallInserts(p) ==
    /\ req[p].op \in {"create", "update"}
    /\ pc[p] = "inserting"
    /\ pc'[p] = "done" \/ idx'[p] = idx[p] + 1
    /\ \A m \in NewRows :
          /\ m.club = req[p].club
          /\ \E i \in 1..Len(req[p].refs) : req[p].refs[i] = m.archer

\* this step is a run of populate_db: one row for every stored archer and club
SeedInserts ==
    /\ outcome'.op = "populate_db"
    /\ UNCHANGED <<pc, req, idx, tx>>
    /\ \A a \in archers', c \in DOMAIN clubs' :
          Cardinality({m \in NewRows : m.archer = a /\ m.club = c}) = 1
    /\ Cardinality(NewRows) = Cardinality(archers') * Cardinality(DOMAIN clubs')

\* this step is a save of the admin site's Membership form
AdminInserts ==
    /\ outcome'.op = "admin_add"
    /\ UNCHANGED <<pc, req, idx, tx, archers, clubs>>
    /\ \A m \in NewRows :
          m.id = outcome'.id /\ m.archer \in archers /\ m.club \in DOMAIN clubs

AllRows == memberships \cup UNION {tx[q].ins : q \in Procs}

\* C21: a Membership row is never changed in place: as long as a row of some
\* identity is stored, its club and its archer are the ones it was inserted
\* with; create and update only remove whole rows and add whole rows.
C21_RowsNeverUpdatedInPlace ==
    [][\A m \in memberships, k \in memberships' : m.id = k.id => m = k]_vars

\* an update has replaced a row by a row for another archer
C21_Witness ==
    \E p \in Procs :
        /\ Update27(p) /\ pc[p] = "done" /\ ~intf[p]
        /\ \E m \in pre[p].rows, k \in ClubRows(req[p].club) :
              m.archer # k.archer /\ m.id # k.id
        /\ Cardinality(pre[p].rows) = 1
        /\ Cardinality(ClubRows(req[p].club)) = 1

\* the update call of p inserts a row in this step
UpdateInserts(p) ==
    /\ req[p].op = "update" /\ pc[p] = "inserting"
    /\ idx'[p] = idx[p] + 1

\* the rows p has inserted so far, as p sees them
Inserted(p) == IF Atomic(p) THEN tx[p].ins ELSE ClubRows(req[p].club)

\* C22: when an update inserts its i-th row, no earlier row of the club is
\* left (all were deleted before the first insert), the rows inserted so far
\* are those of entries 1..i-1, and the new row is the one of entry i, with
\* an identity handed out after theirs.
C22_DeleteFirstThenInsertInOrder ==
    [][\A p \in Procs :
          UpdateInserts(p) =>
              LET c == req[p].club
                  i == idx[p]
                  new == Inserted(p)' \ Inserted(p)
              IN /\ ClubRows(c) \subseteq tx[p].del
                 /\ pre[p].rows \subseteq tx[p].del
                 /\ Cardinality(Inserted(p)) = i - 1
                 /\ Cardinality(new) = 1
                 /\ \A m \in new :
                       /\ m.archer = req[p].refs[i]
                       /\ m.club = c
                       /\ \A k \in Inserted(p) : k.id < m.id]_vars

\* an update of a club with members has stored rows for two different
\* archers, the first entry's row having the smaller identity
C22_Witness ==
    \E p \in Procs :
        /\ Update27(p) /\ pc[p] = "done" /\ ~intf[p]
        /\ pre[p].rows # {}
        /\ Len(req[p].refs) = 2 /\ req[p].refs[1] # req[p].refs[2]
        /\ \E m, k \in ClubRows(req[p].club) :
              /\ m.archer = req[p].refs[1] /\ k.archer = req[p].refs[2]
              /\ m.id < k.id

\* ------------------------------------------------- unknown archer references
\* p's request is validated in this step
Validated(p) ==
    /\ calls' = calls + 1
    /\ pc[p] = "idle" \/ Finished(p)
    /\ pc'[p] \in {"valid", "ValidationError"}

\* p's call fails inside create() or update() in this step
FailsInside(p) == pc[p] = "inserting" /\ pc'[p] = "IntegrityError"

\* C23 as stated: a call that fails for an archer reference that identifies
\* no stored Archer fails inside the transaction (IntegrityError, rolled
\* back), never before the transaction starts.
C23_UnknownRefDetectedInsideTransaction ==
    \A p \in Procs :
        (chapter = 27 /\ req[p].op # "none" /\ pc[p] \in Errors
         /\ req[p].has /\ InvalidRef(p))
            => pc[p] = "IntegrityError"

\* C23 (amended): an archer reference that identifies no stored Archer when
\* the request is validated is rejected by validation, before create() or
\* update() is entered and before any transaction starts, and nothing is
\* written; only a reference whose Archer is deleted after validation is
\* detected inside the transaction, which is then rolled back.
C23_UnknownRefRejectedByValidation ==
    [][\A p \in Procs :
          /\ Validated(p) =>
                /\ (\E i \in 1..Len(req'[p].refs) : req'[p].refs[i] \notin archers)
                      <=> pc'[p] = "ValidationError"
                /\ tx'[p] = NoTx
                /\ UNCHANGED <<Tables, tx>>
          /\ (FailsInside(p) /\ Atomic(p)) =>
                /\ \A i \in 1..Len(req[p].refs) : req[p].refs[i] \in archers
                      \/ i >= idx[p]
                /\ req[p].refs[idx[p]] \notin archers \/ req[p].club \notin DOMAIN clubs
                /\ tx'[p] = NoTx
                /\ UNCHANGED Tables]_vars

\* a Chapter027 request naming a deleted archer has been rejected by
\* validation while the store holds a club
C23_Witness ==
    \E p \in Procs :
        /\ chapter = 27 /\ pc[p] = "ValidationError"
        /\ req[p].has /\ InvalidRef(p)
        /\ tx[p] = NoTx
        /\ DOMAIN clubs # {}

\* the update call of p returns in this step
UpdateReturns(p) == req[p].op = "update" /\ pc[p] = "inserting" /\ pc'[p] = "done"

\* C24: when an update returns, no stored row has an identity of a row the
\* club had when update() was entered, and the rows the update stores have
\* identities no row had before; every row that appears anywhere gets an
\* identity never handed out before, every new Club an identity never handed
\* out before, and no two Membership rows share an identity.
C24_UpdateRowsHaveNewIdentities ==
    [][/\ \A p \in Procs :
            UpdateReturns(p) =>
                /\ \A m \in pre[p].rows, k \in memberships' : k.id # m.id
                /\ \A k \in memberships' \ memberships :
                      /\ k.club = req[p].club
                      /\ \A m \in memberships : m.id # k.id
                /\ \A k \in memberships' : k.club = req[p].club => k \notin memberships
       /\ \A k \in AllRows' :
            (\A m \in AllRows : m.id # k.id) => (k.id >= nextMid /\ k.id < nextMid')
       /\ \A c \in DOMAIN clubs' \ DOMAIN clubs : c < nextClub'
       /\ \A m, k \in AllRows' : m.id = k.id => m = k]_vars

\* an update has returned with as many rows as the club had before, none of
\* them with an identity of before
C24_Witness ==
    \E p \in Procs :
        /\ Update27(p) /\ pc[p] = "done" /\ ~intf[p]
        /\ Cardinality(pre[p].rows) = 2
        /\ Cardinality(ClubRows(req[p].club)) = 1
        /\ \A m \in pre[p].rows, k \in memberships : m.id # k.id

\* ------------------------------------------------------------------ authors
\* a delete request for User u is answered in this step
UserDeleteStep(u) ==
    \/ u \in users /\ u \notin users'
    \/ outcome' # outcome /\ outcome'.op = "delete_user" /\ outcome'.id = u

\* C25: a delete request for a User that is the author of at least one
\* Archer, Club or Membership row is refused with ProtectedError and leaves
\* every table as it was.
C25_ReferencedUserDeleteRefused ==
    [][\A u \in UserIds :
          ((\/ \E a \in archers : ArcherAuthor(a) = u
            \/ \E c \in DOMAIN clubs : clubAuthor[c] = u
            \/ \E m \in memberships : m.author = u)
           /\ UserDeleteStep(u))
              => /\ outcome'.error = "ProtectedError"
                 /\ outcome'.op = "delete_user"
                 /\ UNCHANGED <<Tables, clubAuthor>>]_vars

\* the delete of the user who is the author of a stored Membership row has
\* been refused
C25_Witness ==
    /\ outcome.op = "delete_user" /\ outcome.error = "ProtectedError"
    /\ outcome.id \in users
    /\ \E m \in memberships : m.author = outcome.id

\* p's create call executes Club.objects.create in this step
CreatesClub(p) ==
    /\ req[p].op = "create" /\ req[p].has
    /\ pc[p] = "valid" /\ pc'[p] # "valid"

\* C26: every Club the synchronizer creates and every Membership row it
\* creates has user 1 as its author; a create that finds no user 1 fails
\* and stores nothing.
C26_DefaultAuthorIsUserOne ==
    [][/\ \A m \in AllRows' : m.author = 1
       /\ \A c \in DOMAIN clubs' : clubAuthor'[c] = 1
       /\ \A p \in Procs :
            (CreatesClub(p) /\ 1 \notin users) =>
                /\ pc'[p] = "IntegrityError"
                /\ tx'[p] = NoTx
                /\ UNCHANGED <<Tables, tx>>
       /\ \A p \in Procs :
            (CreatesClub(p) /\ 1 \in users) => pc'[p] = "inserting"]_vars

\* with user 1 deleted a create has failed; nothing is stored
C26_Witness ==
    \E p \in Procs :
        /\ req[p].op = "create" /\ req[p].has
        /\ pc[p] = "IntegrityError"
        /\ 1 \notin users
        /\ DOMAIN clubs = {} /\ memberships = {}

\* ----------------------------------------------------------- Result.average
\* score or arrows is 0 or null
ZeroOrNull(opt) == opt \in {<<>>, <<0>>}

\* C29: Result.average is None exactly when score is 0 or null or arrows is
\* 0 or null; otherwise it is score / arrows rounded to two decimals (the
\* hundredth nearest to the quotient); reading it never raises.
C29_AverageNoneOrRoundedQuotient ==
    average.read =>
        /\ average.error = ""
        /\ average.none <=> (ZeroOrNull(result.score) \/ ZeroOrNull(result.arrows))
        /\ ~average.none =>
              LET d == average.hundredths * result.arrows[1] - 100 * result.score[1]
              IN /\ 2 * d <= result.arrows[1]
                 /\ -2 * d <= result.arrows[1]
        /\ (result.score = <<10>> /\ result.arrows = <<3>>) => average.hundredths = 333

\* 11 points with 8 arrows: 1.375 has been rounded to 1.38
C29_Witness ==
    /\ average.read /\ ~average.none
    /\ result.score = <<11>> /\ result.arrows = <<8>>
    /\ average.hundredths = 138

\* -------------------------------------------------------------- permissions
ArcherViews == {"archer-list", "archer-detail"}
ArcherWrites == {"POST", "PUT", "PATCH", "DELETE"}

\* C27: on the archer endpoints a GET is permitted for every caller, a POST,
\* PUT, PATCH or DELETE is permitted exactly for a staff caller, and every
\* change of an Archer row is made by a staff caller's request
C27_ArcherWritesOnlyByAdmin ==
    [][/\ (http'.view \in ArcherViews /\ http'.method = "GET"
             => http'.status # "denied")
       /\ (http'.view \in ArcherViews /\ http'.method \in ArcherWrites
             => (http'.status = "denied" <=> ~IsStaff(http'.caller)))
       /\ (<<archers, archerName>>' # <<archers, archerName>>
             => http'.view \in ArcherViews /\ IsStaff(http'.caller))]_vars

\* a logged-in caller who is not staff was refused the DELETE of a stored archer
C27_Witness ==
    /\ http.view = "archer-detail"
    /\ http.method = "DELETE"
    /\ http.caller = "member"
    /\ http.status = "denied"
    /\ archers = ArcherIds

\* C28: every ClubViewSet action of an unauthenticated caller is refused and
\* returns no row, and every change of a Club row is made by an authenticated
\* caller's request
C28_ClubsClosedToAnonymous ==
    [][/\ (http'.view = "club" /\ ~IsAuthenticatedUser(http'.caller)
             => http'.status = "denied" /\ http'.rows = {})
       /\ (clubs' # clubs
             => http'.view = "club" /\ IsAuthenticatedUser(http'.caller))]_vars

\* an unauthenticated caller asked for the list while clubs were stored
C28_Witness ==
    /\ http.view = "club"
    /\ http.method = "list"
    /\ http.caller = "anonymous"
    /\ http.status = "denied"
    /\ DOMAIN clubs # {}

\* ---------------------------------------------------------------- archer-info
\* C30: the archer-info query takes every stored Archer row, and the response
\* lists exactly the rows of that query with count equal to their number
C30_CountMatchesListOfAllArchers ==
    [][/\ (info.stage # "queried" /\ info'.stage = "queried"
             => info'.cache = ArcherTable)
       /\ (info'.stage = "sent"
             => /\ info'.count = Cardinality(DOMAIN info'.archers)
                /\ info'.archers = info'.cache)]_vars

\* a response was sent after an archer was deleted between the query and the
\* serialization
C30_Witness ==
    /\ info.stage = "sent"
    /\ info.count = NumArchers
    /\ DOMAIN info.archers = ArcherIds
    /\ archers # ArcherIds

====
